---- MODULE Spec2Model ----
(***************************************************************************)
(* Model of the TextAnalyzer controller and of the ThemeToggle of          *)
(* src/app.js.                                                             *)
(*                                                                         *)
(* A text is a sequence of one-character strings.  A JavaScript Number is  *)
(* a pair <<num, den>> standing for num / den with den a power of ten      *)
(* (normalised, so "1.0" and "1" are the same value); NaN and null are the *)
(* empty tuple.  A percentage string "33.33%" is the integer 3333.         *)
(***************************************************************************)
EXTENDS Integers, Sequences, FiniteSets, TLC

VARIABLES
    text,                 \* textInput.value
    excludeSpaces,        \* this.excludeSpaces
    charLimit,            \* this.charLimit
    lettersDisplayCount,  \* this.lettersDisplayCount
    totalCharsEl,         \* totalCharsEl.textContent
    wordCountEl,          \* wordCountEl.textContent
    sentenceCountEl,      \* sentenceCountEl.textContent
    readingTimeEl,        \* readingTimeEl.textContent
    containerError,       \* class "text__input-container--error" present
    charLimitErrorVal,    \* charLimitErrorVal.textContent
    numberError,          \* class "text__number--error" present
    numberVisible,        \* class "text__number--visible" present
    noLettersDisplay,     \* noLettersEl.style.display
    lettersEl,            \* children of lettersEl
    moreLinkDisplay,      \* moreLink.style.display
    lessLinkDisplay,      \* lessLink.style.display
    lastEvent,            \* the listener that ran last
    lightTheme,           \* class "light-theme" present on document.body
    storedTheme,          \* localStorage.getItem("theme")
    logoSrc,              \* logo.src
    buttonIconSrc,        \* buttonIcon.src
    themeBefore           \* <<lightTheme, storedTheme>> before the last toggleTheme

vars == <<text, excludeSpaces, charLimit, lettersDisplayCount, totalCharsEl,
          wordCountEl, sentenceCountEl, readingTimeEl, containerError,
          charLimitErrorVal, numberError, numberVisible, noLettersDisplay,
          lettersEl, moreLinkDisplay, lessLinkDisplay, lastEvent,
          lightTheme, storedTheme, logoSrc, buttonIconSrc, themeBefore>>

themeVars == <<lightTheme, storedTheme, logoSrc, buttonIconSrc, themeBefore>>

metricsEls == <<totalCharsEl, wordCountEl, sentenceCountEl, readingTimeEl>>

letterListEls == <<noLettersDisplay, lettersEl, moreLinkDisplay, lessLinkDisplay>>

-----------------------------------------------------------------------------
(* Bounds *)

\* longest enumerated text of the controller specification
MaxLen == 2

\* longest enumerated text of the text-metrics specification
MaxTextLen == 3

\* how many times the "more" link is followed beyond the default window
MaxExpand == 1
\* the longest reading time, in minutes, of the long texts
MaxMinutes == 1

-----------------------------------------------------------------------------
(* Program constants *)

DefaultDisplayCount == 5

DisplayStep == 5

averageCharactersPerMinute == 1000

\* content of an element the constructor looked up and no handler wrote yet
NotRendered == -1

null == << >>

NaN == << >>

-----------------------------------------------------------------------------
(* Characters *)

\* characters matched by \s and removed by trim()
WhiteSpace == {" ", "\t", "\n"}

Digits == <<"0", "1", "2", "3", "4", "5", "6", "7", "8", "9">>

LowerLetters == <<"a", "b", "c", "d", "e", "f", "g", "h", "i", "j", "k", "l", "m",
                  "n", "o", "p", "q", "r", "s", "t", "u", "v", "w", "x", "y", "z">>

UpperLetters == <<"A", "B", "C", "D", "E", "F", "G", "H", "I", "J", "K", "L", "M",
                  "N", "O", "P", "Q", "R", "S", "T", "U", "V", "W", "X", "Y", "Z">>

IndexIn(c, table) == CHOOSE i \in 1..Len(table) : table[i] = c

Range(table) == {table[i] : i \in 1..Len(table)}

DigitChars == Range(Digits)

\* the function f as an explicit table
Tabulate(f) == f @@ << >>

LowerOf == Tabulate([c \in Range(UpperLetters) |-> LowerLetters[IndexIn(c, UpperLetters)]])

UpperOf == Tabulate([c \in Range(LowerLetters) |-> UpperLetters[IndexIn(c, LowerLetters)]])

DigitOf == Tabulate([c \in DigitChars |-> IndexIn(c, Digits) - 1])

\* String.prototype.toLowerCase of one character
toLowerCase(c) == IF c \in DOMAIN LowerOf THEN LowerOf[c] ELSE c

\* String.prototype.toUpperCase of one character
toUpperCase(c) == IF c \in DOMAIN UpperOf THEN UpperOf[c] ELSE c

-----------------------------------------------------------------------------
(* String helpers of the JavaScript runtime, as the handlers use them *)

\* s.replace(/[set]/g, ""): s without the characters of set
SelectNot(s, set) ==
    LET Kept(c) == c \notin set
    IN  SelectSeq(s, Kept)

RECURSIVE TrimStart(_)
TrimStart(s) ==
    IF s # << >> /\ Head(s) \in WhiteSpace THEN TrimStart(Tail(s)) ELSE s

RECURSIVE TrimEnd(_)
TrimEnd(s) ==
    IF s # << >> /\ s[Len(s)] \in WhiteSpace THEN TrimEnd(SubSeq(s, 1, Len(s) - 1)) ELSE s

\* String.prototype.trim
trim(s) == TrimEnd(TrimStart(s))

RECURSIVE SplitFrom(_, _, _, _, _)
\* s.split(/[sep]+/) over the positions lo..hi of s: acc holds the finished
\* segments and the segment being read; a run of separators closes one
\* segment. The first half of the positions is read to its end (the test on
\* firstHalf makes it so) before the second half is begun, which keeps the
\* evaluation shallow on long texts.
SplitFrom(s, sep, lo, hi, acc) ==
    IF lo > hi THEN acc
    ELSE IF lo = hi
         THEN IF s[lo] \in sep
              THEN IF lo = 1 \/ s[lo - 1] \notin sep
                   THEN <<Append(acc[1], acc[2]), << >> >>
                   ELSE acc
              ELSE <<acc[1], Append(acc[2], s[lo])>>
         ELSE LET mid       == (lo + hi) \div 2
                  firstHalf == SplitFrom(s, sep, lo, mid, acc)
              IN  CASE Len(firstHalf) = 2 -> SplitFrom(s, sep, mid + 1, hi, firstHalf)

\* String.prototype.split with a one-or-more character-class pattern
split(s, sep) ==
    LET acc == SplitFrom(s, sep, 1, Len(s), << << >>, << >> >>)
    IN  Append(acc[1], acc[2])

NonEmpty(s) == Len(s) > 0

\* the sentence filter without trim
UntrimmedNonEmpty(s) == Len(s) > 0

TrimmedNonEmpty(s) == Len(trim(s)) > 0

SentenceEnd == {".", "!", "?"}

\* the word count without filter(Boolean)
WordCountUnfiltered(value) == Len(split(trim(value), WhiteSpace))

\* text.trim().split(/\s+/).filter(Boolean).length
WordCount(value) == Len(SelectSeq(split(trim(value), WhiteSpace), NonEmpty))

\* text.split(/[.!?]+/).filter(s => s.trim().length > 0).length
SentenceCount(value) == Len(SelectSeq(split(value, SentenceEnd), TrimmedNonEmpty))

\* the count that drops only the whitespace around the text
getTotalCharactersTrimmed(value, exclude) ==
    IF exclude THEN Len(trim(value)) ELSE Len(value)

getTotalCharacters(value, exclude) ==
    IF exclude THEN Len(SelectNot(value, WhiteSpace)) ELSE Len(value)

\* Math.round of a non-negative quotient p / q: halves round up
MathRound(p, q) == (2 * p + q) \div (2 * q)

\* the reading time of the characters that are counted
calculateReadingTimeCounted(value) ==
    MathRound(getTotalCharacters(value, excludeSpaces), averageCharactersPerMinute)

\* Math.round(text.length / averageCharactersPerMinute)
calculateReadingTime(value) == MathRound(Len(value), averageCharactersPerMinute)

\* the text written to readingTimeEl
ReadingTimeText(readingTime) ==
    IF readingTime < 1
    THEN [lessThanOne |-> TRUE, minutes |-> 1, unit |-> "minute"]
    ELSE [lessThanOne |-> FALSE, minutes |-> readingTime,
          unit |-> IF readingTime = 1 THEN "minute" ELSE "minutes"]

-----------------------------------------------------------------------------
(* Numbers: isNaN(value) and +value of handleNumberBlur *)

RECURSIVE DigitsValue(_, _)
\* value of the decimal digits of s, read left to right, acc so far
DigitsValue(s, acc) ==
    IF s = << >> THEN acc
    ELSE DigitsValue(Tail(s), 10 * acc + DigitOf[Head(s)])

RECURSIVE Pow10(_)
Pow10(k) == IF k = 0 THEN 1 ELSE 10 * Pow10(k - 1)

RECURSIVE Normalise(_, _)
Normalise(num, den) ==
    IF den > 1 /\ num % 10 = 0 THEN Normalise(num \div 10, den \div 10) ELSE <<num, den>>

\* StringToNumber for the decimal literals  [+-] digits [. digits] | [+-] . digits ;
\* the empty string is 0, anything else of the modelled alphabet is NaN
StringToNumber(raw) ==
    LET s        == trim(raw)
        signed   == s # << >> /\ Head(s) \in {"+", "-"}
        body     == IF signed THEN Tail(s) ELSE s
        dots     == {i \in 1..Len(body) : body[i] = "."}
        wellMade == /\ \A i \in 1..Len(body) : body[i] = "." \/ body[i] \in DigitChars
                    /\ Cardinality(dots) <= 1
                    /\ \E i \in 1..Len(body) : body[i] \in DigitChars
        dot      == IF dots = {} THEN Len(body) + 1 ELSE CHOOSE i \in dots : TRUE
        mantissa == DigitsValue(SelectNot(body, {"."}), 0)
        fracLen  == IF dots = {} THEN 0 ELSE Len(body) - dot
        sign     == IF signed /\ Head(s) = "-" THEN -1 ELSE 1
    IN  IF s = << >> THEN <<0, 1>>
        ELSE IF ~wellMade THEN NaN
        ELSE Normalise(sign * mantissa, Pow10(fracLen))


\* n > limit for an integer n and a Number limit
GreaterThan(n, limit) == n * limit[2] > limit[1]

\* limit <= 0 for a Number limit
NotPositive(limit) == limit[1] <= 0

-----------------------------------------------------------------------------
(* getLetterFrequency *)

RECURSIVE Increment(_, _)
\* counts[key] = (counts[key] || 0) + 1 on an object kept as the sequence of
\* its <<key, value>> properties in the order the keys were created
Increment(counts, key) ==
    IF counts = << >> THEN << <<key, 1>> >>
    ELSE IF Head(counts)[1] = key
         THEN << <<key, Head(counts)[2] + 1>> >> \o Tail(counts)
         ELSE <<Head(counts)>> \o Increment(Tail(counts), key)

RECURSIVE CountChars(_, _, _, _)
\* the loop  for (const char of text) counts[char.toLowerCase()]++  over the
\* characters lo..hi of value, the first half to its end before the second
CountChars(value, lo, hi, counts) ==
    IF lo > hi THEN counts
    ELSE IF lo = hi THEN Increment(counts, toLowerCase(value[lo]))
    ELSE LET mid       == (lo + hi) \div 2
             firstHalf == CountChars(value, lo, mid, counts)
         IN  CASE Len(firstHalf) > 0 -> CountChars(value, mid + 1, hi, firstHalf)

IsIndexKey(entry) == entry[1] \in DigitChars

IsNameKey(entry) == entry[1] \notin DigitChars

RECURSIVE InsertByKey(_, _)
InsertByKey(sorted, entry) ==
    IF sorted = << >> THEN <<entry>>
    ELSE IF DigitOf[entry[1]] < DigitOf[Head(sorted)[1]]
         THEN <<entry>> \o sorted
         ELSE <<Head(sorted)>> \o InsertByKey(Tail(sorted), entry)

RECURSIVE AscendingKeys(_)
AscendingKeys(entries) ==
    IF entries = << >> THEN << >>
    ELSE InsertByKey(AscendingKeys(Tail(entries)), Head(entries))

\* Object.entries / Object.values order of an object: the integer-index keys
\* ("0" .. "9" among one-character keys) ascending, then the other keys in
\* creation order
ObjectEntries(obj) ==
    AscendingKeys(SelectSeq(obj, IsIndexKey)) \o SelectSeq(obj, IsNameKey)

RECURSIVE Sum(_)
\* Object.values(counts).reduce((sum, count) => sum + count, 0)
Sum(entries) == IF entries = << >> THEN 0 ELSE Head(entries)[2] + Sum(Tail(entries))

RECURSIVE InsertAscending(_, _)
\* entry placed after every entry whose count is not greater
InsertAscending(sorted, entry) ==
    IF sorted = << >> THEN <<entry>>
    ELSE IF Head(sorted)[2] <= entry[2]
         THEN <<Head(sorted)>> \o InsertAscending(Tail(sorted), entry)
         ELSE <<entry>> \o sorted

RECURSIVE InsertDescending(_, _)
\* entry placed after every entry whose count is not smaller
InsertDescending(sorted, entry) ==
    IF sorted = << >> THEN <<entry>>
    ELSE IF Head(sorted)[2] >= entry[2]
         THEN <<Head(sorted)>> \o InsertDescending(Tail(sorted), entry)
         ELSE <<entry>> \o sorted

RECURSIVE SortFrom(_, _)
SortFrom(entries, sorted) ==
    IF entries = << >> THEN sorted
    ELSE SortFrom(Tail(entries), InsertDescending(sorted, Head(entries)))

\* entries.sort((a, b) => b[1] - a[1]): stable, descending by count
SortDescending(entries) == SortFrom(entries, << >>)

\* the counts object of getLetterFrequency
Counts(value) == CountChars(value, 1, Len(value), << >>)

\* sortedEntries of getLetterFrequency
SortedEntries(value) == SortDescending(ObjectEntries(Counts(value)))

\* the percentage cut after two decimals instead of rounded
PercentageTruncated(count, totalCount) == (count * 10000) \div totalCount

\* ((count / totalCount) * 100).toFixed(2) + "%", in hundredths of a percent;
\* a quotient halfway between two hundredths needs a totalCount that is a
\* multiple of 32
Percentage(count, totalCount) == MathRound(count * 10000, totalCount)

RECURSIVE ToPercentages(_, _)
\* sortedEntries.forEach(([letter, count], index) => frequencyMap[index] = ...)
ToPercentages(sortedEntries, totalCount) ==
    IF sortedEntries = << >> THEN << >>
    ELSE << <<Head(sortedEntries)[1], Percentage(Head(sortedEntries)[2], totalCount)>> >>
         \o ToPercentages(Tail(sortedEntries), totalCount)

\* the frequencyMap, as the sequence of its values in index order
getLetterFrequency(value) ==
    IF value = << >> THEN << >>
    ELSE ToPercentages(SortedEntries(value), Sum(ObjectEntries(Counts(value))))

\* entries.slice(1, n)
sliceFromOne(entries, n) == SubSeq(entries, 2, IF n < Len(entries) THEN n ELSE Len(entries))

\* entries.slice(0, n)
slice(entries, n) == SubSeq(entries, 1, IF n < Len(entries) THEN n ELSE Len(entries))

RECURSIVE LetterDivs(_)
\* the letter divs appended to lettersEl: the letter in upper case and its density
LetterDivs(entries) ==
    IF entries = << >> THEN << >>
    ELSE << <<toUpperCase(Head(entries)[1]), Head(entries)[2]>> >> \o LetterDivs(Tail(entries))

Display(shown) == IF shown THEN "block" ELSE "none"

-----------------------------------------------------------------------------
(* Inputs *)

\* the characters typed in the controller specification
Alphabet == {"a", " "}

\* "Hello worl": 10 characters
Hello10 == <<"H", "e", "l", "l", "o", " ", "w", "o", "r", "l">>

\* "Hello world": 11 characters, 10 without the space, 8 distinct
Hello11 == <<"H", "e", "l", "l", "o", " ", "w", "o", "r", "l", "d">>

\* "The quick brown fox": 19 characters, 16 distinct
QuickFox == <<"T", "h", "e", " ", "q", "u", "i", "c", "k", " ",
              "b", "r", "o", "w", "n", " ", "f", "o", "x">>

\* the texts pasted into the textarea
SampleTexts == {Hello10, Hello11, QuickFox}

\* the characters typed in the text-metrics specification
MetricAlphabet == {"a", "A", "b", "1", " ", "\n", ".", "!"}

\* "aabbbc"
Aabbbc == <<"a", "a", "b", "b", "b", "c">>

\* "Hello. World!"
HelloWorld == <<"H", "e", "l", "l", "o", ".", " ", "W", "o", "r", "l", "d", "!">>

\* "No terminator"
NoTerminator == <<"N", "o", " ", "t", "e", "r", "m", "i", "n", "a", "t", "o", "r">>

\* the values left in the number field when it loses focus:
\* "", "  ", "abc", "-3", "0", "-", ".", "1 0", " 1 ", "1.0", "2.5", "10", "+10"
RawValues == { << >>, <<" ", " ">>, <<"a", "b", "c">>, <<"-", "3">>, <<"0">>,
               <<"-">>, <<".">>, <<"1", " ", "0">>, <<" ", "1", " ">>,
               <<"1", ".", "0">>, <<"2", ".", "5">>, <<"1", "0">>,
               <<"+", "1", "0">> }

\* isNaN(value) and +value of the number field's values, computed once
NumberTable ==
    Tabulate([s \in RawValues \cup {trim(raw) : raw \in RawValues} |-> StringToNumber(s)])

\* +value
ToNumber(s) == NumberTable[s]

isNaN(s) == ToNumber(s) = NaN

-----------------------------------------------------------------------------
(* getLetterFrequency of the long texts, computed once *)

\* a text of n characters: groups of four letters a, each followed by fifth
LongText(n, fifth) == [i \in 1..n |-> IF i % 5 = 0 THEN fifth ELSE "a"]

\* 400 characters, and the lengths around every half minute of reading time
LongLengths ==
    {400} \cup {500 * h + d : h \in 1..(2 * MaxMinutes + 1), d \in {-1, 0, 1}}

LongTexts == {LongText(n, fifth) : n \in LongLengths, fifth \in Alphabet}

PastedTexts == SampleTexts \cup {Aabbbc, HelloWorld, NoTerminator}

PastedFrequency == Tabulate([t \in PastedTexts \cup LongTexts |-> getLetterFrequency(t)])

\* the word and sentence counts of the long texts, computed once
LongCounts == Tabulate([t \in LongTexts |-> <<WordCount(t), SentenceCount(t)>>])

\* words.length
WordCountOf(value) ==
    IF value \in DOMAIN LongCounts THEN LongCounts[value][1] ELSE WordCount(value)

\* sentences.length
SentenceCountOf(value) ==
    IF value \in DOMAIN LongCounts THEN LongCounts[value][2] ELSE SentenceCount(value)

\* this.getLetterFrequency(value)
FrequencyMapOf(value) ==
    IF value \in DOMAIN PastedFrequency
    THEN PastedFrequency[value] ELSE getLetterFrequency(value)

-----------------------------------------------------------------------------
(* ThemeToggle *)

\* what localStorage.getItem returns for a key that was never set
NoItem == "(null)"

\* the src an image has in the document, before any updateImages
DocumentSrc == "(document)"

\* this.logo.dataset
LogoDataset ==
    [light |-> "./assets/images/logo-light-theme.svg",
     dark  |-> "./assets/images/logo-dark-theme.svg"]

\* this.buttonIcon.dataset
ButtonIconDataset ==
    [light |-> "./assets/images/icon-moon.svg",
     dark  |-> "./assets/images/icon-sun.svg"]

\* updateImages(isLight)
updateImages(isLight) ==
    /\ logoSrc' = IF isLight THEN LogoDataset.light ELSE LogoDataset.dark
    /\ buttonIconSrc' = IF isLight THEN ButtonIconDataset.light ELSE ButtonIconDataset.dark

\* loadTheme() on the document as it is served, its body without the class
\* "light-theme", when localStorage holds savedTheme
loadTheme(savedTheme) ==
    IF savedTheme = "light"
    THEN /\ lightTheme' = TRUE
         /\ updateImages(TRUE)
    ELSE /\ lightTheme' = FALSE
         /\ logoSrc' = DocumentSrc
         /\ buttonIconSrc' = DocumentSrc

\* the name of the theme that is not displayed
ThemeNameInverted(isLightTheme) == IF isLightTheme THEN "dark" ELSE "light"

\* isLightTheme ? "light" : "dark"
ThemeName(isLightTheme) == IF isLightTheme THEN "light" ELSE "dark"

\* "click" on the theme button: toggleTheme()
toggleTheme ==
    LET isLightTheme == ~lightTheme
    IN  /\ lightTheme' = isLightTheme
        /\ updateImages(isLightTheme)
        /\ storedTheme' = ThemeName(isLightTheme)
        /\ themeBefore' = <<lightTheme, storedTheme>>
        /\ lastEvent' = "themeClick"
        /\ UNCHANGED <<text, excludeSpaces, charLimit, lettersDisplayCount, metricsEls,
                       containerError, charLimitErrorVal, numberError, numberVisible,
                       letterListEls>>

-----------------------------------------------------------------------------
(* State after construction *)

\* new TextAnalyzer()
TextAnalyzerInit ==
    /\ text = << >>
    /\ excludeSpaces = FALSE
    /\ charLimit = null
    /\ lettersDisplayCount = DefaultDisplayCount
    /\ totalCharsEl = NotRendered
    /\ wordCountEl = NotRendered
    /\ sentenceCountEl = NotRendered
    /\ readingTimeEl = [lessThanOne |-> FALSE, minutes |-> NotRendered, unit |-> ""]
    /\ containerError = FALSE
    /\ charLimitErrorVal = null
    /\ numberError = FALSE
    /\ numberVisible = FALSE
    /\ noLettersDisplay = ""
    /\ lettersEl = << >>
    /\ moreLinkDisplay = "none"
    /\ lessLinkDisplay = "none"
    /\ lastEvent = "none"

\* new ThemeToggle(...) on a first visit: nothing in localStorage, so that
\* loadTheme leaves the document as it is served
ThemeToggleInit ==
    /\ lightTheme = FALSE
    /\ storedTheme = NoItem
    /\ logoSrc = DocumentSrc
    /\ buttonIconSrc = DocumentSrc
    /\ themeBefore = <<FALSE, NoItem>>

Init == TextAnalyzerInit /\ ThemeToggleInit

\* the page is loaded again: new TextAnalyzer(), new ThemeToggle(...) on the
\* document as it is served, localStorage as the last visit left it
Reload ==
    /\ text' = << >>
    /\ excludeSpaces' = FALSE
    /\ charLimit' = null
    /\ lettersDisplayCount' = DefaultDisplayCount
    /\ totalCharsEl' = NotRendered
    /\ wordCountEl' = NotRendered
    /\ sentenceCountEl' = NotRendered
    /\ readingTimeEl' = [lessThanOne |-> FALSE, minutes |-> NotRendered, unit |-> ""]
    /\ containerError' = FALSE
    /\ charLimitErrorVal' = null
    /\ numberError' = FALSE
    /\ numberVisible' = FALSE
    /\ noLettersDisplay' = ""
    /\ lettersEl' = << >>
    /\ moreLinkDisplay' = "none"
    /\ lessLinkDisplay' = "none"
    /\ lastEvent' = "none"
    /\ loadTheme(storedTheme)
    /\ themeBefore' = <<FALSE, NoItem>>
    /\ UNCHANGED storedTheme

-----------------------------------------------------------------------------
(* Methods *)

\* updateLetterList that shows the more link by the default window
updateLetterListDefaultWindow(value, displayCount) ==
    LET entries      == FrequencyMapOf(value)
        totalLetters == Len(entries)
    IN  /\ noLettersDisplay' = Display(totalLetters = 0)
        /\ moreLinkDisplay' = Display(totalLetters > DefaultDisplayCount)
        /\ lessLinkDisplay' = Display(displayCount > DefaultDisplayCount)
        /\ lettersEl' = LetterDivs(slice(entries, displayCount))

\* updateLetterList(value) with this.lettersDisplayCount = displayCount
updateLetterList(value, displayCount) ==
    LET entries      == FrequencyMapOf(value)
        totalLetters == Len(entries)
    IN  /\ noLettersDisplay' = Display(totalLetters = 0)
        /\ moreLinkDisplay' = Display(totalLetters > displayCount)
        /\ lessLinkDisplay' = Display(displayCount > DefaultDisplayCount)
        /\ lettersEl' = LetterDivs(slice(entries, displayCount))

\* a limit that is already exceeded when it is reached
OverLimitWhenReached(totalCharacters, limit) ==
    /\ limit # null
    /\ limit[1] # 0
    /\ ~GreaterThan(limit[1], <<totalCharacters * limit[2], 1>>)

\* the condition  this.charLimit && totalCharacters > this.charLimit
OverLimit(totalCharacters, limit) ==
    /\ limit # null
    /\ limit[1] # 0
    /\ GreaterThan(totalCharacters, limit)

\* handleTextInput that sets the error class without writing the limit into
\* the message
handleTextInputKeepsErrorVal(value, limit) ==
    LET totalCharacters == getTotalCharacters(value, excludeSpaces)
    IN  /\ totalCharsEl' = totalCharacters
        /\ wordCountEl' = WordCountOf(value)
        /\ sentenceCountEl' = SentenceCountOf(value)
        /\ readingTimeEl' = ReadingTimeText(calculateReadingTime(value))
        /\ UNCHANGED charLimitErrorVal
        /\ IF OverLimit(totalCharacters, limit)
           THEN /\ containerError' = TRUE
                /\ UNCHANGED letterListEls
           ELSE /\ containerError' = FALSE
                /\ updateLetterList(value, lettersDisplayCount)

\* handleTextInput({target: {value}}) with this.charLimit = limit
handleTextInput(value, limit) ==
    LET totalCharacters == getTotalCharacters(value, excludeSpaces)
    IN  /\ totalCharsEl' = totalCharacters
        /\ wordCountEl' = WordCountOf(value)
        /\ sentenceCountEl' = SentenceCountOf(value)
        /\ readingTimeEl' = ReadingTimeText(calculateReadingTime(value))
        /\ IF OverLimit(totalCharacters, limit)
           THEN /\ containerError' = TRUE
                /\ charLimitErrorVal' = limit
                /\ UNCHANGED letterListEls
           ELSE /\ containerError' = FALSE
                /\ UNCHANGED charLimitErrorVal
                /\ updateLetterList(value, lettersDisplayCount)

\* the test without its sign check
InvalidLimitUnsigned(value) ==
    \/ value = << >>
    \/ isNaN(value)

\* the test  value === "" || isNaN(value) || +value <= 0  of handleNumberBlur
InvalidLimit(value) ==
    \/ value = << >>
    \/ isNaN(value)
    \/ NotPositive(ToNumber(value))

-----------------------------------------------------------------------------
(* Event listeners *)

\* "input" on the textarea: the user has made t the textarea's value
TextInput(t) ==
    /\ text' = t
    /\ handleTextInput(t, charLimit)
    /\ lastEvent' = "input"
    /\ UNCHANGED themeVars
    /\ UNCHANGED <<excludeSpaces, charLimit, lettersDisplayCount, numberError, numberVisible>>

\* "change" on the exclude-spaces checkbox
handleSpacesToggle(checked) ==
    /\ excludeSpaces' = checked
    /\ totalCharsEl' = getTotalCharacters(text, checked)
    /\ lastEvent' = "spacesChange"
    /\ UNCHANGED themeVars
    /\ UNCHANGED <<text, charLimit, lettersDisplayCount, wordCountEl, sentenceCountEl,
                   readingTimeEl, containerError, charLimitErrorVal, numberError,
                   numberVisible, letterListEls>>

\* the change listener that hides the field and the error but keeps the limit
handleCharLimitToggleKeepsLimit(isEnabled) ==
    /\ numberVisible' = isEnabled
    /\ containerError' = (isEnabled /\ containerError)
    /\ lastEvent' = "charLimitChange"
    /\ UNCHANGED themeVars
    /\ UNCHANGED <<text, excludeSpaces, charLimit, lettersDisplayCount, metricsEls,
                   charLimitErrorVal, numberError, letterListEls>>

\* "change" on the character-limit checkbox
handleCharLimitToggle(isEnabled) ==
    /\ numberVisible' = isEnabled
    /\ IF isEnabled
       THEN UNCHANGED <<charLimit, containerError>>
       ELSE /\ charLimit' = null
            /\ containerError' = FALSE
    /\ lastEvent' = "charLimitChange"
    /\ UNCHANGED themeVars
    /\ UNCHANGED <<text, excludeSpaces, lettersDisplayCount, metricsEls,
                   charLimitErrorVal, numberError, letterListEls>>

\* the blur listener without the re-run of the text input handler
handleNumberBlurNoRerun(raw) ==
    LET value == trim(raw)
    IN  /\ IF InvalidLimit(value)
           THEN /\ numberError' = TRUE
                /\ charLimit' = null
           ELSE /\ numberError' = FALSE
                /\ charLimit' = ToNumber(value)
        /\ lastEvent' = "numberBlur"
        /\ UNCHANGED themeVars
        /\ UNCHANGED <<text, excludeSpaces, lettersDisplayCount, numberVisible,
                       metricsEls, containerError, charLimitErrorVal, letterListEls>>

\* "blur" on the number field holding raw
handleNumberBlur(raw) ==
    LET value == trim(raw)
    IN  /\ IF InvalidLimit(value)
           THEN /\ numberError' = TRUE
                /\ charLimit' = null
                /\ UNCHANGED <<metricsEls, containerError, charLimitErrorVal, letterListEls>>
           ELSE /\ numberError' = FALSE
                /\ charLimit' = ToNumber(value)
                /\ handleTextInput(text, ToNumber(value))
        /\ lastEvent' = "numberBlur"
        /\ UNCHANGED themeVars
        /\ UNCHANGED <<text, excludeSpaces, lettersDisplayCount, numberVisible>>

\* the more listener without the call of updateLetterList
MoreClickNoUpdate ==
    /\ lettersDisplayCount < DefaultDisplayCount + MaxExpand * DisplayStep
    /\ lettersDisplayCount' = lettersDisplayCount + DisplayStep
    /\ lastEvent' = "moreClick"
    /\ UNCHANGED themeVars
    /\ UNCHANGED <<text, excludeSpaces, charLimit, metricsEls, containerError,
                   charLimitErrorVal, numberError, numberVisible, letterListEls>>

\* "click" on the more link
MoreClick ==
    /\ lettersDisplayCount < DefaultDisplayCount + MaxExpand * DisplayStep
    /\ lettersDisplayCount' = lettersDisplayCount + DisplayStep
    /\ updateLetterList(text, lettersDisplayCount + DisplayStep)
    /\ lastEvent' = "moreClick"
    /\ UNCHANGED themeVars
    /\ UNCHANGED <<text, excludeSpaces, charLimit, metricsEls, containerError,
                   charLimitErrorVal, numberError, numberVisible>>

Max(a, b) == IF a > b THEN a ELSE b

\* the less listener without the floor of Math.max
LessClickNoFloor ==
    /\ lettersDisplayCount' = lettersDisplayCount - DisplayStep
    /\ updateLetterList(text, lettersDisplayCount - DisplayStep)
    /\ lastEvent' = "lessClick"
    /\ UNCHANGED themeVars
    /\ UNCHANGED <<text, excludeSpaces, charLimit, metricsEls, containerError,
                   charLimitErrorVal, numberError, numberVisible>>

\* "click" on the less link
LessClick ==
    /\ lettersDisplayCount' = Max(DefaultDisplayCount, lettersDisplayCount - DisplayStep)
    /\ updateLetterList(text, Max(DefaultDisplayCount, lettersDisplayCount - DisplayStep))
    /\ lastEvent' = "lessClick"
    /\ UNCHANGED themeVars
    /\ UNCHANGED <<text, excludeSpaces, charLimit, metricsEls, containerError,
                   charLimitErrorVal, numberError, numberVisible>>

-----------------------------------------------------------------------------
(* Specifications *)

\* the values the textarea can take by one edit of value: a character typed
\* at the end, the last character deleted, everything deleted, a sample pasted
\* over everything
Edits(value, alphabet, maxLen) ==
    {Append(value, c) : c \in IF Len(value) < maxLen THEN alphabet ELSE {}}
    \cup (IF 0 < Len(value) /\ Len(value) <= maxLen
          THEN {SubSeq(value, 1, Len(value) - 1)} ELSE {})
    \cup {<< >>}
    \cup SampleTexts

Next ==
    \/ \E t \in Edits(text, Alphabet, MaxLen) : TextInput(t)
    \/ \E checked \in BOOLEAN : handleSpacesToggle(checked)
    \/ \E isEnabled \in BOOLEAN : handleCharLimitToggle(isEnabled)
    \/ \E raw \in RawValues : handleNumberBlur(raw)
    \/ MoreClick
    \/ LessClick

\* the controller under every sequence of events
Spec == Init /\ [][Next]_vars

NextText ==
    \/ \E t \in Edits(text, MetricAlphabet, MaxTextLen) \cup PastedTexts : TextInput(t)
    \/ \E checked \in BOOLEAN : handleSpacesToggle(checked)

\* the text metrics and the ranking over a wider set of texts, no limit set
SpecText == Init /\ [][NextText]_vars

NextReading ==
    \/ \E t \in Edits(text, Alphabet, MaxLen) \cup LongTexts : TextInput(t)
    \/ \E checked \in BOOLEAN : handleSpacesToggle(checked)

\* the text metrics of texts that take minutes to read, no limit set
SpecReading == Init /\ [][NextReading]_vars

NextTheme ==
    \/ toggleTheme
    \/ Reload
    \/ \E t \in Edits(text, Alphabet, MaxLen) : TextInput(t)
    \/ \E checked \in BOOLEAN : handleSpacesToggle(checked)

\* the theme button and reloads of the page, while a text is typed
SpecTheme == Init /\ [][NextTheme]_vars

-----------------------------------------------------------------------------
(* Vocabulary of the properties *)

\* the character count the user expects: every character, or every character
\* that is not whitespace
ExpectedTotal(value, exclude) ==
    IF exclude
    THEN Cardinality({i \in 1..Len(value) : value[i] \notin WhiteSpace})
    ELSE Len(value)

\* the over-limit error indicator
OverLimitIndicator == containerError

\* a raw value that trims to empty, is not numeric, or parses to a value <= 0
Rejected(raw) ==
    \/ \A i \in 1..Len(raw) : raw[i] \in WhiteSpace
    \/ ToNumber(raw) = NaN
    \/ ToNumber(raw)[1] <= 0

Ten == <<10, 1>>

-----------------------------------------------------------------------------
(* C1: right after every text change the over-limit indicator is active    *)
(* exactly when a limit is set and the character count under the current   *)
(* exclude-spaces setting exceeds it; with the limit 10, a text of 11      *)
(* characters activates it and a text of 10 characters clears it.          *)
C1_OverLimitAfterTextChange ==
    lastEvent = "input" =>
        /\ OverLimitIndicator <=>
              /\ charLimit # null
              /\ ExpectedTotal(text, excludeSpaces) * charLimit[2] > charLimit[1]
        /\ (charLimit = Ten /\ ExpectedTotal(text, excludeSpaces) = 11) => OverLimitIndicator
        /\ (charLimit = Ten /\ ExpectedTotal(text, excludeSpaces) = 10) => ~OverLimitIndicator

\* an 11-character text was typed under the limit 10
C1_Witness ==
    /\ lastEvent = "input"
    /\ charLimit = Ten
    /\ ~excludeSpaces
    /\ Len(text) = 11
    /\ OverLimitIndicator

-----------------------------------------------------------------------------
(* C2: committing a raw value that trims to empty, is not numeric, or      *)
(* parses to a value <= 0 leaves charLimit unset and the field-level error *)
(* indicator set, and changes nothing else: excludeSpaces, windowSize, the *)
(* displayed metrics, the displayed letter list and the over-limit         *)
(* indicator stay as they were.                                            *)
C2_InvalidLimitRejected ==
    [][\A raw \in RawValues :
          (lastEvent' = "numberBlur" /\ Rejected(raw) /\ handleNumberBlur(raw)) =>
              /\ charLimit' = null
              /\ numberError'
              /\ UNCHANGED <<text, excludeSpaces, lettersDisplayCount, metricsEls,
                             letterListEls, OverLimitIndicator, charLimitErrorVal>>]_vars

\* a rejected commit while the over-limit indicator was active: the limit is
\* gone, the indicator is still there
C2_Witness ==
    /\ lastEvent = "numberBlur"
    /\ numberError
    /\ charLimit = null
    /\ OverLimitIndicator
    /\ charLimitErrorVal = Ten

-----------------------------------------------------------------------------
(* C3: in every reachable state charLimit is unset or a positive integer,  *)
(* never zero, negative or a non-integer number.                           *)
C3_LimitIsPositiveInteger ==
    charLimit # null => (charLimit[1] > 0 /\ charLimit[2] = 1)

-----------------------------------------------------------------------------
(* Vocabulary of the displayed results *)

\* the metrics of a text, in the order of metricsEls
MetricsOf(value, exclude) ==
    <<ExpectedTotal(value, exclude), WordCount(value), SentenceCount(value),
      ReadingTimeText(calculateReadingTime(value))>>

\* the first count entries of the ranking of a text, as they are displayed
LetterListOf(value, count) == LetterDivs(slice(FrequencyMapOf(value), count))

\* total exceeds the Number limit
Exceeds(total, limit) == total * limit[2] > limit[1]

-----------------------------------------------------------------------------
(* C4 as stated: right after a successful commit, with no text change in   *)
(* between, the over-limit indicator is active iff the character count of  *)
(* the current text exceeds the committed limit, and the displayed metrics *)
(* and letter list are those of the current text.                          *)
C4_CommitShowsCurrentMetricsAndList ==
    [][\A raw \in RawValues :
          (lastEvent' = "numberBlur" /\ ~Rejected(raw) /\ handleNumberBlur(raw)) =>
              /\ charLimit' = ToNumber(raw)
              /\ containerError' <=>
                    Exceeds(ExpectedTotal(text', excludeSpaces'), ToNumber(raw))
              /\ <<totalCharsEl', wordCountEl', sentenceCountEl', readingTimeEl'>>
                    = MetricsOf(text', excludeSpaces')
              /\ lettersEl' = LetterListOf(text', lettersDisplayCount')]_vars

(* C4 amended: right after a successful commit the over-limit indicator is *)
(* active iff the character count of the current text exceeds the          *)
(* committed limit and the displayed metrics are those of the current      *)
(* text; the displayed letter list is that of the current text when the    *)
(* text is within the committed limit, and is left as it was otherwise.    *)
C4_CommitRevalidates ==
    [][\A raw \in RawValues :
          (lastEvent' = "numberBlur" /\ ~Rejected(raw) /\ handleNumberBlur(raw)) =>
              /\ charLimit' = ToNumber(raw)
              /\ containerError' <=>
                    Exceeds(ExpectedTotal(text', excludeSpaces'), ToNumber(raw))
              /\ <<totalCharsEl', wordCountEl', sentenceCountEl', readingTimeEl'>>
                    = MetricsOf(text', excludeSpaces')
              /\ IF containerError'
                 THEN UNCHANGED letterListEls
                 ELSE lettersEl' = LetterListOf(text', lettersDisplayCount')]_vars

\* a commit that put a text already typed over the new limit
C4_Witness ==
    /\ lastEvent = "numberBlur"
    /\ ~numberError
    /\ charLimit = <<1, 1>>
    /\ charLimitErrorVal = <<1, 1>>
    /\ Len(text) = 2
    /\ OverLimitIndicator
    /\ lettersEl = LetterListOf(text, lettersDisplayCount)

-----------------------------------------------------------------------------
(* C5: disabling the limit always ends with charLimit unset and the        *)
(* over-limit indicator inactive; enabling it does not set charLimit; and  *)
(* an unset charLimit becomes set only by a commit of a valid value, so    *)
(* after a disable it stays unset through text changes, exclude-spaces     *)
(* changes, expand, collapse and enable events.                            *)
C5_DisableClearsLimit ==
    [][/\ \A isEnabled \in BOOLEAN :
            (lastEvent' = "charLimitChange" /\ handleCharLimitToggle(isEnabled)) =>
                IF isEnabled
                THEN charLimit' = charLimit
                ELSE charLimit' = null /\ ~containerError'
       /\ (charLimit = null /\ charLimit' # null) =>
            /\ lastEvent' = "numberBlur"
            /\ \E raw \in RawValues : ~Rejected(raw) /\ charLimit' = ToNumber(raw)]_vars

\* the limit was disabled while the text was over it
C5_Witness ==
    /\ lastEvent = "charLimitChange"
    /\ ~numberVisible
    /\ charLimit = null
    /\ ~OverLimitIndicator
    /\ charLimitErrorVal # null
    /\ Exceeds(ExpectedTotal(text, excludeSpaces), charLimitErrorVal)

-----------------------------------------------------------------------------
(* C6: windowSize starts at 5; expanding adds exactly 5 and collapsing     *)
(* gives max(5, windowSize - 5); no text change, exclude-spaces change,    *)
(* limit toggle or limit commit alters it; so it is always a multiple of 5 *)
(* and at least 5.                                                         *)
C6_WindowSize ==
    /\ lettersDisplayCount = 5
    /\ [](lettersDisplayCount >= 5 /\ lettersDisplayCount % 5 = 0)
    /\ [][/\ lastEvent' = "moreClick" => lettersDisplayCount' = lettersDisplayCount + 5
          /\ lastEvent' = "lessClick" =>
                lettersDisplayCount' = IF lettersDisplayCount - 5 > 5
                                       THEN lettersDisplayCount - 5 ELSE 5
          /\ lastEvent' \notin {"moreClick", "lessClick"} =>
                lettersDisplayCount' = lettersDisplayCount]_vars

\* an expanded window was collapsed again
C6_Witness ==
    /\ lastEvent = "lessClick"
    /\ lettersDisplayCount = 5
    /\ Len(lettersEl) = 5
    /\ moreLinkDisplay = "block"

-----------------------------------------------------------------------------
(* C7: from the first text change or exclude-spaces change on, the         *)
(* displayed total character count is the length of the current text when  *)
(* excludeSpaces is false and the length of the text without its           *)
(* whitespace characters when it is true, after every event.               *)
C7_DisplayedTotal ==
    /\ [](lastEvent \in {"input", "spacesChange"} =>
            totalCharsEl = ExpectedTotal(text, excludeSpaces))
    /\ [][totalCharsEl = ExpectedTotal(text, excludeSpaces) =>
            totalCharsEl' = ExpectedTotal(text', excludeSpaces')]_vars

\* spaces were excluded from a text that has whitespace inside
C7_Witness ==
    /\ lastEvent = "spacesChange"
    /\ excludeSpaces
    /\ text = Hello11
    /\ totalCharsEl = 10

-----------------------------------------------------------------------------
(* The letter list has just been written: at construction, by an expand or *)
(* a collapse, or by a text change or a successful limit commit that found *)
(* the text within the limit.                                              *)
LetterListJustUpdated ==
    \/ lastEvent \in {"none", "moreClick", "lessClick"}
    \/ lastEvent = "input" /\ ~OverLimitIndicator
    \/ lastEvent = "numberBlur" /\ ~numberError /\ ~OverLimitIndicator

\* the number of distinct lowercased characters of a text
DistinctCharacters(value) == Cardinality({toLowerCase(value[i]) : i \in 1..Len(value)})

(* C8 as stated: in every reachable state the "show more" control is       *)
(* visible iff the ranking of the current text is longer than windowSize.  *)
C8_MoreVisibleAlways ==
    moreLinkDisplay = "block" <=> DistinctCharacters(text) > lettersDisplayCount

(* C8 amended: whenever the letter list has just been updated, the "show   *)
(* more" control is visible iff the ranking of the current text is longer  *)
(* than windowSize.                                                        *)
C8_MoreVisibleAfterUpdate ==
    LetterListJustUpdated =>
        (moreLinkDisplay = "block" <=> DistinctCharacters(text) > lettersDisplayCount)

\* an expanded window that holds the whole ranking of the text
C8_Witness ==
    /\ lastEvent = "input"
    /\ text = Hello11
    /\ lettersDisplayCount = 10
    /\ moreLinkDisplay = "none"
    /\ Len(lettersEl) = 8

-----------------------------------------------------------------------------
(* C9: in every reachable state the "show less" control is visible iff     *)
(* windowSize > 5.                                                         *)
C9_LessVisible ==
    lessLinkDisplay = "block" <=> lettersDisplayCount > 5

\* the window was expanded while the text was over the limit
C9_Witness ==
    /\ lastEvent = "moreClick"
    /\ OverLimitIndicator
    /\ lettersDisplayCount = 10
    /\ lessLinkDisplay = "block"

-----------------------------------------------------------------------------
(* C10: the ranking of a text holds each distinct lowercased character of  *)
(* the text exactly once, with the number of its occurrences among ALL     *)
(* characters (whitespace and punctuation included), so the counts sum to  *)
(* the number of characters, in non-increasing order of count; the ranking *)
(* of the empty text is empty; the frequency map lists the same characters *)
(* in the same order.                                                      *)
Occurrences(value, c) == Cardinality({i \in 1..Len(value) : toLowerCase(value[i]) = c})

C10_Ranking ==
    LET ranking == SortedEntries(text)
        map     == getLetterFrequency(text)
        n       == Len(ranking)
    IN  /\ {ranking[i][1] : i \in 1..n} = {toLowerCase(text[i]) : i \in 1..Len(text)}
        /\ \A i, j \in 1..n : ranking[i][1] = ranking[j][1] => i = j
        /\ \A i \in 1..n : ranking[i][2] = Occurrences(text, ranking[i][1])
        /\ Sum(ranking) = Len(text)
        /\ \A i \in 1..(n - 1) : ranking[i][2] >= ranking[i + 1][2]
        /\ text = << >> => (ranking = << >> /\ map = << >>)
        /\ Len(map) = n
        /\ \A i \in 1..n : map[i][1] = ranking[i][1]

\* a text with both cases of a letter, a whitespace character and a rarer
\* character in front
C10_Witness ==
    /\ lastEvent = "input"
    /\ text = <<" ", "a", "A">>
    /\ lettersEl = << <<"A", 6667>>, <<" ", 3333>> >>

-----------------------------------------------------------------------------
(* C11: any two distinct characters with equal counts appear in the        *)
(* ranking of a text in the order of their first occurrence in the text,   *)
(* whatever the characters are (letters, digits, whitespace, punctuation). *)
FirstOccurrence(value, c) ==
    CHOOSE i \in 1..Len(value) :
        /\ toLowerCase(value[i]) = c
        /\ \A j \in 1..(i - 1) : toLowerCase(value[j]) # c

C11_TiesInFirstOccurrenceOrder ==
    LET ranking == SortedEntries(text)
    IN  \A i, j \in 1..Len(ranking) :
            (i < j /\ ranking[i][2] = ranking[j][2]) =>
                FirstOccurrence(text, ranking[i][1]) < FirstOccurrence(text, ranking[j][1])

-----------------------------------------------------------------------------
(* C12: for a non-empty text every percentage of the ranking is            *)
(* count / totalCount * 100 rounded to 2 decimal places on its own, with   *)
(* totalCount the number of all characters of the text, and lies in        *)
(* [0, 100]; the ranking of "aabbbc" is b 50.00, a 33.33, c 16.67.         *)
C12_Percentages ==
    LET ranking == SortedEntries(text)
        map     == getLetterFrequency(text)
    IN  /\ text # << >> =>
              \A i \in 1..Len(ranking) :
                  LET error == 2 * (map[i][2] * Len(text) - 10000 * ranking[i][2])
                  IN  /\ -Len(text) <= error
                      /\ error <= Len(text)
                      /\ 0 <= map[i][2]
                      /\ map[i][2] <= 10000
        /\ text = Aabbbc => map = << <<"b", 5000>>, <<"a", 3333>>, <<"c", 1667>> >>

\* "aabbbc" was pasted and its ranking is displayed
C12_Witness ==
    /\ lastEvent = "input"
    /\ text = Aabbbc
    /\ lettersEl = << <<"B", 5000>>, <<"A", 3333>>, <<"C", 1667>> >>

-----------------------------------------------------------------------------
(* C13: whenever the letter list has just been updated, the rendered list  *)
(* is the first min(windowSize, length of the ranking) entries of the      *)
(* ranking of the current text, in ranking order; so it is no longer than  *)
(* windowSize and no longer than the ranking.                              *)
C13_TopWindow ==
    (lastEvent # "none" /\ LetterListJustUpdated) =>
        LET ranking == FrequencyMapOf(text)
            shown   == IF lettersDisplayCount < Len(ranking)
                       THEN lettersDisplayCount ELSE Len(ranking)
        IN  /\ Len(lettersEl) = shown
            /\ Len(lettersEl) <= lettersDisplayCount
            /\ Len(lettersEl) <= Len(ranking)
            /\ \A i \in 1..shown :
                  lettersEl[i] = <<toUpperCase(ranking[i][1]), ranking[i][2]>>

\* a window of 10 on a ranking of 16 entries
C13_Witness ==
    /\ lastEvent = "moreClick"
    /\ text = QuickFox
    /\ lettersDisplayCount = 10
    /\ Len(lettersEl) = 10
    /\ lettersEl[1] = <<" ", 1579>>

-----------------------------------------------------------------------------
(* C14: the word count shown after a text change is the number of maximal  *)
(* runs of non-whitespace characters of the text; it is 0 for an empty or  *)
(* whitespace-only text, and whitespace added in front or at the end does  *)
(* not change it.                                                          *)
WordStarts(value) ==
    {i \in 1..Len(value) :
        value[i] \notin WhiteSpace /\ (i = 1 \/ value[i - 1] \in WhiteSpace)}

C14_WordCount ==
    wordCountEl # NotRendered =>
        /\ wordCountEl = Cardinality(WordStarts(text))
        /\ (\A i \in 1..Len(text) : text[i] \in WhiteSpace) => wordCountEl = 0
        /\ \A w \in WhiteSpace :
              /\ WordCount(<<w>> \o text) = wordCountEl
              /\ WordCount(text \o <<w>>) = wordCountEl

\* two words on two lines
C14_Witness ==
    /\ lastEvent = "input"
    /\ text = <<"a", "\n", "b">>
    /\ wordCountEl = 2

-----------------------------------------------------------------------------
(* C15: the sentence count shown after a text change is the number of      *)
(* segments between maximal runs of '.', '!' and '?' whose trimmed form is *)
(* not empty: 2 for "Hello. World!", 0 for "...", 1 for "No terminator",   *)
(* 0 for the empty text.                                                   *)
SentenceStarts(value) ==
    {i \in 1..Len(value) :
        /\ value[i] \notin SentenceEnd
        /\ i = 1 \/ value[i - 1] \in SentenceEnd
        /\ \E j \in i..Len(value) :
              /\ value[j] \notin WhiteSpace
              /\ \A k \in i..j : value[k] \notin SentenceEnd}

C15_SentenceCount ==
    sentenceCountEl # NotRendered =>
        /\ sentenceCountEl = Cardinality(SentenceStarts(text))
        /\ text = HelloWorld => sentenceCountEl = 2
        /\ text = <<".", ".", ".">> => sentenceCountEl = 0
        /\ text = NoTerminator => sentenceCountEl = 1
        /\ text = << >> => sentenceCountEl = 0

\* "Hello. World!" was pasted
C15_Witness ==
    /\ lastEvent = "input"
    /\ text = HelloWorld
    /\ sentenceCountEl = 2

-----------------------------------------------------------------------------
(* C16: the reading time shown after a text change is the raw character    *)
(* count of the text divided by 1000 and rounded to the nearest integer,   *)
(* whatever excludeSpaces is; 1000 characters give 1 minute, 400           *)
(* characters give 0, and 0 is shown as the under-one-minute text.         *)
C16_ReadingTime ==
    readingTimeEl.minutes # NotRendered =>
        LET minutes == IF readingTimeEl.lessThanOne THEN 0 ELSE readingTimeEl.minutes
            error   == 2 * (1000 * minutes - Len(text))
        IN  /\ -1000 <= error
            /\ error <= 1000
            /\ ~readingTimeEl.lessThanOne => readingTimeEl.minutes >= 1
            /\ Len(text) = 1000 =>
                  readingTimeEl = [lessThanOne |-> FALSE, minutes |-> 1, unit |-> "minute"]
            /\ Len(text) = 400 => readingTimeEl.lessThanOne

\* 1000 characters, 200 of them spaces that are not counted, read in 1 minute
C16_Witness ==
    /\ lastEvent = "input"
    /\ excludeSpaces
    /\ Len(text) = 1000
    /\ totalCharsEl = 800
    /\ readingTimeEl = [lessThanOne |-> FALSE, minutes |-> 1, unit |-> "minute"]

-----------------------------------------------------------------------------
(* Vocabulary of the theme *)

\* the theme the page displays
DisplayedTheme(light) == IF light THEN "light" ELSE "dark"

\* a step that is a click on the theme button
IsToggle(eventAfter) == eventAfter = "themeClick"

\* a step that initializes the page again
IsReload(eventAfter) == eventAfter = "none"

\* every toggle writes the displayed theme, one of "light" and "dark"
ToggleWritesDisplayedTheme ==
    [](lastEvent = "themeClick" =>
          /\ storedTheme \in {"light", "dark"}
          /\ storedTheme = DisplayedTheme(lightTheme))

\* an initialization from a value a toggle wrote displays the same theme
ReloadDisplaysWrittenTheme ==
    [][(IsReload(lastEvent') /\ storedTheme \in {"light", "dark"}) =>
          /\ storedTheme' = storedTheme
          /\ DisplayedTheme(lightTheme') = storedTheme
          /\ lightTheme' = lightTheme]_vars

(* C17 as stated: every theme toggle writes the persisted theme, which is  *)
(* then "light" or "dark" and equals the displayed theme; a later          *)
(* initialization from that value displays the same theme; two consecutive *)
(* toggles restore both the displayed and the persisted theme.             *)
C17_TwoTogglesRestoreTheme ==
    /\ ToggleWritesDisplayedTheme
    /\ ReloadDisplaysWrittenTheme
    /\ [][(IsToggle(lastEvent) /\ IsToggle(lastEvent')) =>
            <<lightTheme', storedTheme'>> = themeBefore]_vars

(* C17 amended: as stated, but two consecutive toggles restore the         *)
(* displayed theme, and the persisted theme when one was persisted before  *)
(* them; with none persisted they leave "dark" persisted.                  *)
C17_TwoTogglesRestoreWrittenTheme ==
    /\ ToggleWritesDisplayedTheme
    /\ ReloadDisplaysWrittenTheme
    /\ [][(IsToggle(lastEvent) /\ IsToggle(lastEvent')) =>
            /\ lightTheme' = themeBefore[1]
            /\ storedTheme' = IF themeBefore[2] = NoItem THEN "dark" ELSE themeBefore[2]]_vars

\* a toggle back to the light theme, after a toggle that stored "dark"
C17_Witness ==
    /\ lastEvent = "themeClick"
    /\ themeBefore = <<FALSE, "dark">>
    /\ lightTheme
    /\ storedTheme = "light"
    /\ logoSrc = LogoDataset.light

-----------------------------------------------------------------------------
(* C18 as stated: in every reachable state in which the over-limit         *)
(* indicator is active, charLimit is set and the limit shown in the error  *)
(* message equals the current charLimit.                                   *)
C18_MessageShowsCurrentLimit ==
    OverLimitIndicator => (charLimit # null /\ charLimitErrorVal = charLimit)

(* C18 amended: in every reachable state in which the over-limit indicator *)
(* is active, the error message shows a limit, and either charLimit is set *)
(* and equals it, or charLimit is unset and the field-level error          *)
(* indicator is set, as an invalid commit leaves them.                     *)
C18_MessageShowsExceededLimit ==
    OverLimitIndicator =>
        /\ charLimitErrorVal # null
        /\ \/ charLimit # null /\ charLimitErrorVal = charLimit
           \/ charLimit = null /\ numberError

\* the limit 10 was exceeded and then lost to an invalid commit; the message
\* still shows 10 when the list is expanded
C18_Witness ==
    /\ lastEvent = "moreClick"
    /\ OverLimitIndicator
    /\ charLimit = null
    /\ numberError
    /\ charLimitErrorVal = Ten

-----------------------------------------------------------------------------
(* C19: in every reachable state in which charLimit is set, the over-limit *)
(* indicator is active iff the character count of the current text under   *)
(* the current excludeSpaces setting exceeds charLimit, also after an      *)
(* exclude-spaces change.                                                  *)
C19_IndicatorFollowsExcludeSpaces ==
    charLimit # null =>
        (OverLimitIndicator <=> Exceeds(ExpectedTotal(text, excludeSpaces), charLimit))

-----------------------------------------------------------------------------
(* C20: in every reachable state in which the over-limit indicator is      *)
(* inactive, the displayed letter list is the first windowSize entries of  *)
(* the ranking of the current text, also right after the limit was         *)
(* disabled while the text was over it.                                    *)
C20_ListCurrentWithoutIndicator ==
    ~OverLimitIndicator => lettersEl = LetterListOf(text, lettersDisplayCount)

====
